---- MODULE Spec2Model ----
(***************************************************************************)
(* Model of @shkumbinhsn/fetcher: fetcher(), handleErrorResponse(),        *)
(* parseResponse() (src/src/api/fetcher.ts), validateSchema() and          *)
(* SchemaValidationError (src/src/api/validation.ts), ApiError             *)
(* (errors/base) and defineError (errors/factory).                         *)
(*                                                                         *)
(* One fetcher call is a process whose steps are the stretches of code     *)
(* between two await points.  Strings built by template literals are       *)
(* modelled as sequences of string tokens whose concatenation is the       *)
(* string; empty tokens are dropped so that equal strings are equal        *)
(* sequences.                                                              *)
(***************************************************************************)
EXTENDS Integers, Sequences, FiniteSets, TLC

\* ---------------------------------------------------------------- bounds
MaxErrors == 2          \* longest errors list a caller passes
MaxBody == 1            \* decoded JSON bodies are the numbers 0..MaxBody

\* ------------------------------------------------------- the environment
Calls == {"c1", "c2"}                    \* identities of fetcher calls
Inputs == {"/api/users"}
Methods == {"POST"}
Signals == {"controller.signal"}         \* AbortSignals a caller passes
ResponseStatuses == {200, 204, 400, 404}
StatusTexts == {"", "Bad Request"}
ContentLengths == {"absent", "0"}        \* headers.get('content-length')
Bodies == 0..MaxBody

Null == -1                               \* the JS value null
NoData == -2                             \* a field that holds nothing

\* A response of the transport.  ref is the identity of the Response object,
\* decodable says whether response.json() resolves, data is what it resolves
\* to (a body that does not decode has no data).
Responses(c) ==
    [ref : {c}, status : ResponseStatuses, statusText : StatusTexts,
     contentLength : ContentLengths, decodable : {TRUE}, data : Bodies]
    \cup
    [ref : {c}, status : ResponseStatuses, statusText : StatusTexts,
     contentLength : ContentLengths, decodable : {FALSE}, data : {0}]

NoResponse ==
    [ref |-> "none", status |-> 0, statusText |-> "", contentLength |-> "absent",
     decodable |-> FALSE, data |-> 0]

\* Mutant of ok: the upper end of the range is not tested.
ok_noUpperBound(response) == response.status >= 200

\* Mutant of ok: the lower end of the range is left out.
ok_above200(response) == response.status > 200 /\ response.status =< 299

\* Response.ok: the status is in the range 200-299
ok(response) == response.status >= 200 /\ response.status =< 299

\* ------------------------------------------------------------ strings
Str(tokens) == SelectSeq(tokens, LAMBDA t : t # "")

\* ------------------------------------------------------------ schemas
\* A Standard Schema is known by what its ~standard.validate does.
\*   isZero      accepts the body 0 and coerces it (output = body + 10)
\*   nonZero     accepts every body but 0, output is the body itself
\*   any         accepts every body and coerces it (output = body + 20)
\*   throws      its validate throws a TypeError
\*   emptyIssues its validate returns { issues: [] }
Schemas == {"isZero", "nonZero", "any", "throws", "emptyIssues"}
NoSchema == "undefined"

\* The result of schema['~standard'].validate(data):
\*   thrown = TRUE: validate threw; otherwise hasIssues says whether the
\*   result has an issues field, issues is that list (of messages), value
\*   is result.value.
StandardValidate(schema, data) ==
    CASE schema = "isZero" ->
           IF data = 0
           THEN [thrown |-> FALSE, hasIssues |-> FALSE, issues |-> <<>>, value |-> data + 10]
           ELSE [thrown |-> FALSE, hasIssues |-> TRUE, issues |-> <<"Expected 0">>, value |-> NoData]
      [] schema = "nonZero" ->
           IF data # 0
           THEN [thrown |-> FALSE, hasIssues |-> FALSE, issues |-> <<>>, value |-> data]
           ELSE [thrown |-> FALSE, hasIssues |-> TRUE, issues |-> <<"Expected non-zero", "Required">>, value |-> NoData]
      [] schema = "any" ->
           [thrown |-> FALSE, hasIssues |-> FALSE, issues |-> <<>>, value |-> data + 20]
      [] schema = "throws" ->
           [thrown |-> TRUE, hasIssues |-> FALSE, issues |-> <<>>, value |-> NoData]
      [] OTHER ->
           [thrown |-> FALSE, hasIssues |-> TRUE, issues |-> <<>>, value |-> NoData]

\* ------------------------------------------------------------ errors
NoClass == [statusCode |-> 0, schema |-> NoSchema, name |-> ""]

\* A thrown value.  kind is the class it is an instance of:
\*   "Error", "TypeError", "SyntaxError", "AbortError",
\*   "SchemaValidationError", "ApiError",
\*   or "NonError" for a thrown value that is not an Error.
\* class, data, statusCode, response are the fields of an ApiError; issues
\* is the field of a SchemaValidationError.
MkError(kind, name, message) ==
    [kind |-> kind, name |-> name, message |-> message, class |-> NoClass,
     data |-> NoData, statusCode |-> 0, response |-> NoResponse, issues |-> <<>>]

NoError == MkError("none", "", <<>>)

Error(message) == MkError("Error", "Error", message)

\* Mutant of instanceofError: only direct instances of Error count.
instanceofError_onlyPlain(e) == e.kind = "Error"

instanceofError(e) ==
    e.kind \in {"Error", "TypeError", "SyntaxError", "AbortError", "SchemaValidationError", "ApiError"}
instanceofApiError(e) == e.kind = "ApiError"
\* Mutant of instanceofSchemaValidationError: the test is made on the
\* error's name, against the wrong name.
instanceofSchemaValidationError_wrongName(e) == e.name = "ValidationError"
\* Mutant of instanceofSchemaValidationError: every Error counts as a
\* validation error.
instanceofSchemaValidationError_anyError(e) == instanceofError(e) /\ e.kind # "ApiError"
instanceofSchemaValidationError(e) == e.kind = "SchemaValidationError"

\* What a schema whose validate throws, throws.
SchemaThrownError == MkError("TypeError", "TypeError", <<"schema crashed">>)

\* new SchemaValidationError(message, issues)
SchemaValidationError(message, issues) ==
    [MkError("SchemaValidationError", "SchemaValidationError", message) EXCEPT !.issues = issues]

\* Mutant of defineError: the class has the instance field only, its
\* statics are left undefined.
defineError_noStatics(statusCode, schema, name) ==
    [statusCode |-> 0, schema |-> NoSchema, name |-> name]

\* defineError(statusCode, schema, name): the class, known by its statics and
\* by the display name its constructor applies.  name = "" is an omitted name.
defineError(statusCode, schema, name) ==
    [statusCode |-> statusCode, schema |-> schema, name |-> name]

\* The classes the callers have defined: four for the status 400, with
\* schemas that accept some bodies, accept all, throw, or reject with an
\* empty issue list; one for another failure status and one for a success
\* status.
ErrorClasses ==
    { defineError(400, s, "CustomError") : s \in {"isZero", "any", "throws", "emptyIssues"} }
        \cup {defineError(404, "any", ""), defineError(200, "any", "")}


\* The name the build gives the anonymous class expression that defineError
\* returns: the empty string where the expression is kept as written, the
\* name of the temporary it is assigned to where static fields are lowered.
VARIABLE anonymousName
AnonymousNames == {"", "_a"}

\* this.constructor.name of an instance of ErrorClass
ConstructorName(ErrorClass) == anonymousName

\* Mutant of NewErrorClass: the display name is not applied.
NewErrorClass_ignoresName(ErrorClass, message, data, response) ==
    [kind |-> "ApiError", name |-> ConstructorName(ErrorClass),
     message |-> message, class |-> ErrorClass, data |-> data,
     statusCode |-> ErrorClass.statusCode, response |-> response, issues |-> <<>>]

\* Mutant of NewErrorClass: the constructor drops its message and keeps a
\* copy of the response with no identity.
NewErrorClass_dropsMessage(ErrorClass, message, data, response) ==
    [kind |-> "ApiError",
     name |-> IF ErrorClass.name # "" THEN ErrorClass.name ELSE ConstructorName(ErrorClass),
     message |-> <<>>, class |-> ErrorClass, data |-> data,
     statusCode |-> ErrorClass.statusCode,
     response |-> [response EXCEPT !.ref = "copy"], issues |-> <<>>]

\* new ErrorClass(message, data, response): ApiError's constructor sets
\* message, data, response and name = constructor.name; the subclass sets
\* statusCode and, when a display name was given, name.
NewErrorClass(ErrorClass, message, data, response) ==
    [kind |-> "ApiError",
     name |-> IF ErrorClass.name # "" THEN ErrorClass.name ELSE ConstructorName(ErrorClass),
     message |-> message, class |-> ErrorClass, data |-> data,
     statusCode |-> ErrorClass.statusCode, response |-> response, issues |-> <<>>]

\* ------------------------------------------------------------ validateSchema
\* Outcome of validateSchema(schema, data): either returns value or throws error.
Returned(v) == [threw |-> FALSE, value |-> v, error |-> NoError]
Threw(e) == [threw |-> TRUE, value |-> NoData, error |-> e]

\* Mutant of validateSchema: on acceptance it returns the data it was given
\* instead of result.value.
validateSchema_returnsInput(schema, data) ==
    LET result == StandardValidate(schema, data) IN
    IF result.thrown
    THEN Threw(SchemaThrownError)
    ELSE IF result.hasIssues
         THEN Threw(SchemaValidationError(
                  Str(<<"Validation failed: ",
                        IF Len(result.issues) > 0 /\ result.issues[1] # ""
                        THEN result.issues[1] ELSE "Unknown error">>),
                  result.issues))
         ELSE Returned(data)

\* Mutant of validateSchema: the call of validate is wrapped in a try block
\* that turns what it throws into a SchemaValidationError.
validateSchema_wrapsThrow(schema, data) ==
    LET result == StandardValidate(schema, data) IN
    IF result.thrown
    THEN Threw(SchemaValidationError(
             Str(<<"Validation failed: ">> \o SchemaThrownError.message), <<>>))
    ELSE IF result.hasIssues
         THEN Threw(SchemaValidationError(
                  Str(<<"Validation failed: ",
                        IF Len(result.issues) > 0 /\ result.issues[1] # ""
                        THEN result.issues[1] ELSE "Unknown error">>),
                  result.issues))
         ELSE Returned(result.value)

validateSchema(schema, data) ==
    LET result == StandardValidate(schema, data) IN
    IF result.thrown
    THEN Threw(SchemaThrownError)
    ELSE IF result.hasIssues
         THEN Threw(SchemaValidationError(
                  Str(<<"Validation failed: ",
                        IF Len(result.issues) > 0 /\ result.issues[1] # ""
                        THEN result.issues[1] ELSE "Unknown error">>),
                  result.issues))
         ELSE Returned(result.value)

\* ------------------------------------------------------------ the callers
RECURSIVE SeqsUpTo(_, _)
SeqsUpTo(S, n) ==
    IF n = 0 THEN {<<>>}
    ELSE LET shorter == SeqsUpTo(S, n - 1) IN
         shorter \cup {Append(q, x) : q \in shorter, x \in S}

ErrorLists == SeqsUpTo(ErrorClasses, MaxErrors)

EmptyObject == [k \in {} |-> 0]

Merge(f, g) ==
    [k \in DOMAIN f \cup DOMAIN g |-> IF k \in DOMAIN f THEN f[k] ELSE g[k]]

\* The init objects callers pass: schema is present or not, errors is
\* present or not, the transport's own options (method, signal) are
\* present or not.
FetcherRequestInits ==
    { Merge(Merge(a, b), m) :
        a \in {EmptyObject} \cup {[schema |-> x] : x \in Schemas},
        b \in {EmptyObject} \cup {[errors |-> x] : x \in ErrorLists},
        m \in {EmptyObject} \cup {[method |-> x, signal |-> y] : x \in Methods, y \in Signals} }

\* What fetch() can reject with: a network failure, an abort, a thrown
\* value that is not an Error.
TransportFailures ==
    {MkError("TypeError", "TypeError", <<"Network error">>),
     MkError("AbortError", "AbortError", <<"The operation was aborted">>),
     MkError("NonError", "", <<"a string">>)}

\* ------------------------------------------------------------ the state
VARIABLES
    pc,             \* where each call is: "idle", "fetch", "errorJson",
                    \* "errorValidate", "parseJson", "parseValidate", "done"
    args,           \* the arguments of the call: input, hasInit, init
    fetchArgs,      \* what fetch() was invoked with: input, requestInit
    fetchError,     \* what fetch() rejected with, if it did
    response,       \* the Response fetch() resolved to
    responseData,   \* the decoded body (responseData / data)
    matchingErrors, \* handleErrorResponse's filtered list
    idx,            \* the position of the for-of loop in matchingErrors
    outcome,        \* how the promise of the call settled
    constructed,    \* the typed errors the call has constructed, in order
    log,            \* what the call has invoked, in order
    registry,       \* the classes defineError has returned, in order, each
                    \* with its identity and the arguments of the call
    instance        \* the instance the caller has constructed last

callVars == <<pc, args, fetchArgs, fetchError, response, responseData, matchingErrors, idx,
              outcome, constructed, log>>
apiVars == <<registry, instance, anonymousName>>
vars == <<callVars, apiVars>>

Pending == [kind |-> "pending", value |-> NoData, error |-> NoError]
Resolved(v) == [kind |-> "resolved", value |-> v, error |-> NoError]
Rejected(e) == [kind |-> "rejected", value |-> NoData, error |-> e]

\* Entries of log: ev is "fetch", "json" or "validate"; a failure-path
\* "validate" carries the position k in matchingErrors and the schema of
\* that class; a success-path "validate" carries k = 0 and the schema.
Event(ev, k, schema) == [ev |-> ev, k |-> k, schema |-> schema]

NoArgs == [input |-> "", hasInit |-> FALSE, init |-> EmptyObject]

\* instance: of is the position in registry of the class that was
\* constructed (0: nothing constructed yet), error is the instance.
NoInstance == [of |-> 0, error |-> NoError]

InitCalls ==
    /\ pc = [c \in Calls |-> "idle"]
    /\ args = [c \in Calls |-> NoArgs]
    /\ fetchArgs = [c \in Calls |-> <<>>]
    /\ fetchError = [c \in Calls |-> NoError]
    /\ response = [c \in Calls |-> NoResponse]
    /\ responseData = [c \in Calls |-> NoData]
    /\ matchingErrors = [c \in Calls |-> <<>>]
    /\ idx = [c \in Calls |-> 0]
    /\ outcome = [c \in Calls |-> Pending]
    /\ constructed = [c \in Calls |-> <<>>]
    /\ log = [c \in Calls |-> <<>>]

Init ==
    /\ InitCalls
    /\ registry = <<>>
    /\ instance = NoInstance
    /\ anonymousName = ""

\* const { schema, errors, ...requestInit } = init || {}
InitOrEmpty(a) == IF a.hasInit THEN a.init ELSE EmptyObject
\* Mutant of schemaOf: a missing schema defaults to one that accepts anything.
schemaOf_defaultsToAny(a) ==
    IF "schema" \in DOMAIN InitOrEmpty(a) THEN InitOrEmpty(a).schema ELSE "any"
schemaOf(a) == IF "schema" \in DOMAIN InitOrEmpty(a) THEN InitOrEmpty(a).schema ELSE NoSchema
hasErrors(a) == "errors" \in DOMAIN InitOrEmpty(a)
errorsOf(a) == IF hasErrors(a) THEN InitOrEmpty(a).errors ELSE <<>>
\* Mutant of requestInitOf: only schema is taken out of init.
requestInitOf_keepsErrors(a) ==
    [k \in DOMAIN InitOrEmpty(a) \ {"schema"} |-> InitOrEmpty(a)[k]]

requestInitOf(a) ==
    [k \in DOMAIN InitOrEmpty(a) \ {"schema", "errors"} |-> InitOrEmpty(a)[k]]

\* The catch block of fetcher: what it throws for a caught error.
Catch(error) ==
    IF instanceofApiError(error) THEN error
    ELSE IF instanceofSchemaValidationError(error)
         THEN Error(Str(<<"Response validation failed: ">> \o error.message))
         ELSE Error(Str(<<"Request failed: ">> \o
                        (IF instanceofError(error) THEN error.message
                         ELSE <<"Unknown error">>)))

\* Mutant of RequestFailed: the message leaves the status out.
RequestFailed_noStatus(r) == Error(Str(<<"Request failed: ", r.statusText>>))

\* `Request failed: ${response.status} ${response.statusText}`
RequestFailed(r) == Error(Str(<<"Request failed: ", ToString(r.status), " ", r.statusText>>))

\* Mutant of NoMatchingErrorSchema: the message does not say that no schema
\* matched.
NoMatchingErrorSchema_plain(r) ==
    Error(Str(<<"Request failed: ", ToString(r.status), " ", r.statusText>>))

\* `Request failed: ${response.status} ${response.statusText} - No matching error schema`
NoMatchingErrorSchema(r) ==
    Error(Str(<<"Request failed: ", ToString(r.status), " ", r.statusText,
                " - No matching error schema">>))

\* Mutant of FilterMatching: the candidates come out in reverse order.
FilterMatching_reversed(errorTypes, r) ==
    LET m == SelectSeq(errorTypes, LAMBDA E : E.statusCode = r.status)
    IN [i \in 1..Len(m) |-> m[Len(m) + 1 - i]]

\* Mutant of FilterMatching: the list is not filtered by status.
FilterMatching_unfiltered(errorTypes, r) == errorTypes

\* errorTypes.filter(E => E.statusCode === response.status)
FilterMatching(errorTypes, r) ==
    SelectSeq(errorTypes, LAMBDA E : E.statusCode = r.status)

\* A call settles: the promise of fetcher resolves or rejects.
Settle(c, o) ==
    /\ outcome' = [outcome EXCEPT ![c] = o]
    /\ pc' = [pc EXCEPT ![c] = "done"]

\* fetcher, lines 13-18: destructure init and invoke fetch.
Call(c, input, hasInit, init) ==
    /\ pc[c] = "idle"
    /\ args' = [args EXCEPT ![c] = [input |-> input, hasInit |-> hasInit, init |-> init]]
    /\ fetchArgs' = [fetchArgs EXCEPT ![c] =
                        Append(@, [input |-> input, requestInit |-> requestInitOf(args'[c])])]
    /\ log' = [log EXCEPT ![c] = Append(@, Event("fetch", 0, NoSchema))]
    /\ pc' = [pc EXCEPT ![c] = "fetch"]
    /\ UNCHANGED <<apiVars, fetchError, response, responseData, matchingErrors, idx, outcome, constructed>>

\* fetch() rejects: the catch block wraps the error.  The transport aborts
\* only a request that was given a signal.
FetchReject(c, error) ==
    /\ pc[c] = "fetch"
    /\ error.kind = "AbortError" => \E a \in DOMAIN fetchArgs[c] :
                                        "signal" \in DOMAIN fetchArgs[c][a].requestInit
    /\ fetchError' = [fetchError EXCEPT ![c] = error]
    /\ Settle(c, Rejected(Catch(error)))
    /\ UNCHANGED <<apiVars, args, fetchArgs, response, responseData, matchingErrors, idx, constructed, log>>

\* fetch() resolves with a response that is not ok: handleErrorResponse up
\* to its await of response.json().
FetchResolveNotOk(c, r) ==
    /\ pc[c] = "fetch"
    /\ ~ok(r)
    /\ response' = [response EXCEPT ![c] = r]
    /\ LET errorTypes == errorsOf(args[c])
           matching == FilterMatching(errorTypes, r)
       IN IF Len(errorTypes) = 0
          THEN /\ Settle(c, Rejected(Catch(RequestFailed(r))))
               /\ UNCHANGED <<matchingErrors, log>>
          ELSE IF Len(matching) = 0
               THEN /\ Settle(c, Rejected(Catch(RequestFailed(r))))
                    /\ UNCHANGED <<matchingErrors, log>>
               ELSE /\ matchingErrors' = [matchingErrors EXCEPT ![c] = matching]
                    /\ log' = [log EXCEPT ![c] = Append(@, Event("json", 0, NoSchema))]
                    /\ pc' = [pc EXCEPT ![c] = "errorJson"]
                    /\ UNCHANGED outcome
    /\ UNCHANGED <<apiVars, args, fetchArgs, fetchError, responseData, idx, constructed>>

\* Mutant of ErrorJsonReject: the inner catch swallows the decode failure
\* and the loop runs on an undefined body.
ErrorJsonReject_swallows(c) ==
    /\ pc[c] = "errorJson"
    /\ ~response[c].decodable
    /\ idx' = [idx EXCEPT ![c] = 1]
    /\ log' = [log EXCEPT ![c] = Append(@, Event("validate", 1, matchingErrors[c][1].schema))]
    /\ pc' = [pc EXCEPT ![c] = "errorValidate"]
    /\ UNCHANGED <<apiVars, args, fetchArgs, fetchError, response, responseData, matchingErrors, outcome, constructed>>

\* Mutant of ErrorJsonReject: a body that does not decode is decoded again.
ErrorJsonReject_retries(c) ==
    /\ pc[c] = "errorJson"
    /\ ~response[c].decodable
    /\ log' = [log EXCEPT ![c] = Append(@, Event("json", 0, NoSchema))]
    /\ UNCHANGED <<apiVars, pc, outcome, args, fetchArgs, fetchError, response, responseData,
                   matchingErrors, idx, constructed>>

\* response.json() rejects in handleErrorResponse: the inner catch throws
\* the generic failure.
ErrorJsonReject(c) ==
    /\ pc[c] = "errorJson"
    /\ ~response[c].decodable
    /\ Settle(c, Rejected(Catch(RequestFailed(response[c]))))
    /\ UNCHANGED <<apiVars, args, fetchArgs, fetchError, response, responseData, matchingErrors, idx, constructed, log>>

\* Mutant of ErrorJsonResolve: the cursor of the loop is kept at module
\* level, so a call goes on from where the other calls have got to.
ErrorJsonResolve_sharedCursor(c) ==
    /\ pc[c] = "errorJson"
    /\ response[c].decodable
    /\ responseData' = [responseData EXCEPT ![c] = response[c].data]
    /\ \E d \in Calls :
          LET k == IF idx[d] + 1 =< Len(matchingErrors[c]) THEN idx[d] + 1 ELSE 1 IN
          /\ idx' = [idx EXCEPT ![c] = k]
          /\ log' = [log EXCEPT ![c] = Append(@, Event("validate", k, matchingErrors[c][k].schema))]
    /\ pc' = [pc EXCEPT ![c] = "errorValidate"]
    /\ UNCHANGED <<apiVars, args, fetchArgs, fetchError, response, matchingErrors, outcome, constructed>>

\* Mutant of ErrorJsonResolve: the schemas of all the candidates are invoked
\* at once, before any of them has settled.
ErrorJsonResolve_allAtOnce(c) ==
    /\ pc[c] = "errorJson"
    /\ response[c].decodable
    /\ responseData' = [responseData EXCEPT ![c] = response[c].data]
    /\ idx' = [idx EXCEPT ![c] = 1]
    /\ log' = [log EXCEPT ![c] =
                  @ \o [k \in 1..Len(matchingErrors[c]) |->
                          Event("validate", k, matchingErrors[c][k].schema)]]
    /\ pc' = [pc EXCEPT ![c] = "errorValidate"]
    /\ UNCHANGED <<apiVars, args, fetchArgs, fetchError, response, matchingErrors, outcome, constructed>>

\* response.json() resolves in handleErrorResponse: the loop starts and
\* invokes validateSchema for the first candidate.
ErrorJsonResolve(c) ==
    /\ pc[c] = "errorJson"
    /\ response[c].decodable
    /\ responseData' = [responseData EXCEPT ![c] = response[c].data]
    /\ idx' = [idx EXCEPT ![c] = 1]
    /\ log' = [log EXCEPT ![c] = Append(@, Event("validate", 1, matchingErrors[c][1].schema))]
    /\ pc' = [pc EXCEPT ![c] = "errorValidate"]
    /\ UNCHANGED <<apiVars, args, fetchArgs, fetchError, response, matchingErrors, outcome, constructed>>

\* validateSchema settles for the candidate at idx: construct and throw the
\* typed error, go on to the next candidate, or re-throw.
ErrorValidate(c) ==
    /\ pc[c] = "errorValidate"
    /\ LET ErrorClass == matchingErrors[c][idx[c]]
           v == validateSchema(ErrorClass.schema, responseData[c])
       IN IF ~v.threw
          THEN LET e == NewErrorClass(ErrorClass, Str(<<response[c].statusText>>),
                                      v.value, response[c])
               IN /\ constructed' = [constructed EXCEPT ![c] = Append(@, e)]
                  /\ Settle(c, Rejected(Catch(e)))
                  /\ UNCHANGED <<idx, log>>
          ELSE IF ~instanceofSchemaValidationError(v.error)
               THEN /\ Settle(c, Rejected(Catch(v.error)))
                    /\ UNCHANGED <<idx, log, constructed>>
               ELSE IF idx[c] < Len(matchingErrors[c])
                    THEN /\ idx' = [idx EXCEPT ![c] = @ + 1]
                         /\ log' = [log EXCEPT ![c] =
                                Append(@, Event("validate", idx[c] + 1,
                                                matchingErrors[c][idx[c] + 1].schema))]
                         /\ UNCHANGED <<pc, outcome, constructed>>
                    ELSE /\ Settle(c, Rejected(Catch(NoMatchingErrorSchema(response[c]))))
                         /\ UNCHANGED <<idx, log, constructed>>
    /\ UNCHANGED <<apiVars, args, fetchArgs, fetchError, response, responseData, matchingErrors>>

\* Mutant of FetchResolveOk: the content-length header is not looked at.
FetchResolveOk_only204(c, r) ==
    /\ pc[c] = "fetch"
    /\ ok(r)
    /\ response' = [response EXCEPT ![c] = r]
    /\ IF r.status = 204
       THEN /\ Settle(c, Resolved(Null))
            /\ UNCHANGED log
       ELSE /\ log' = [log EXCEPT ![c] = Append(@, Event("json", 0, NoSchema))]
            /\ pc' = [pc EXCEPT ![c] = "parseJson"]
            /\ UNCHANGED outcome
    /\ UNCHANGED <<apiVars, args, fetchArgs, fetchError, responseData, matchingErrors, idx, constructed>>

\* fetch() resolves with an ok response: parseResponse up to its await of
\* response.json().  Its promise is returned, not awaited: what it rejects
\* with does not pass through the catch block of fetcher.
FetchResolveOk(c, r) ==
    /\ pc[c] = "fetch"
    /\ ok(r)
    /\ response' = [response EXCEPT ![c] = r]
    /\ IF r.status = 204 \/ r.contentLength = "0"
       THEN /\ Settle(c, Resolved(Null))
            /\ UNCHANGED log
       ELSE /\ log' = [log EXCEPT ![c] = Append(@, Event("json", 0, NoSchema))]
            /\ pc' = [pc EXCEPT ![c] = "parseJson"]
            /\ UNCHANGED outcome
    /\ UNCHANGED <<apiVars, args, fetchArgs, fetchError, responseData, matchingErrors, idx, constructed>>

\* Mutant of ParseJsonReject: the decode failure is swallowed and the call
\* resolves to null.
ParseJsonReject_resolvesNull(c) ==
    /\ pc[c] = "parseJson"
    /\ ~response[c].decodable
    /\ Settle(c, Resolved(Null))
    /\ UNCHANGED <<apiVars, args, fetchArgs, fetchError, response, responseData, matchingErrors, idx,
                   constructed, log>>

\* response.json() rejects in parseResponse.
ParseJsonReject(c) ==
    /\ pc[c] = "parseJson"
    /\ ~response[c].decodable
    /\ Settle(c, Rejected(MkError("SyntaxError", "SyntaxError", <<"Unexpected token">>)))
    /\ UNCHANGED <<apiVars, args, fetchArgs, fetchError, response, responseData, matchingErrors, idx, constructed, log>>

\* response.json() resolves in parseResponse: return the data, or invoke
\* validateSchema.
ParseJsonResolve(c) ==
    /\ pc[c] = "parseJson"
    /\ response[c].decodable
    /\ responseData' = [responseData EXCEPT ![c] = response[c].data]
    /\ IF schemaOf(args[c]) = NoSchema
       THEN /\ Settle(c, Resolved(response[c].data))
            /\ UNCHANGED log
       ELSE /\ log' = [log EXCEPT ![c] = Append(@, Event("validate", 0, schemaOf(args[c])))]
            /\ pc' = [pc EXCEPT ![c] = "parseValidate"]
            /\ UNCHANGED outcome
    /\ UNCHANGED <<apiVars, args, fetchArgs, fetchError, response, matchingErrors, idx, constructed>>

\* Mutant of ParseValidate: parseResponse is awaited inside the try block, so
\* what it throws passes through the catch block of fetcher.
ParseValidate_awaited(c) ==
    /\ pc[c] = "parseValidate"
    /\ LET v == validateSchema(schemaOf(args[c]), responseData[c])
       IN IF v.threw THEN Settle(c, Rejected(Catch(v.error)))
                     ELSE Settle(c, Resolved(v.value))
    /\ UNCHANGED <<apiVars, args, fetchArgs, fetchError, response, responseData, matchingErrors, idx,
                   constructed, log>>

\* Mutant of ParseValidate: the decoded body is kept at module level, so the
\* schema is given the body some call has decoded.
ParseValidate_sharedData(c) ==
    /\ pc[c] = "parseValidate"
    /\ \E d \in Calls :
          /\ responseData[d] # NoData
          /\ LET v == validateSchema(schemaOf(args[c]), responseData[d])
             IN IF v.threw THEN Settle(c, Rejected(v.error))
                           ELSE Settle(c, Resolved(v.value))
    /\ UNCHANGED <<apiVars, args, fetchArgs, fetchError, response, responseData, matchingErrors, idx,
                   constructed, log>>

\* validateSchema settles in parseResponse.
ParseValidate(c) ==
    /\ pc[c] = "parseValidate"
    /\ LET v == validateSchema(schemaOf(args[c]), responseData[c])
       IN IF v.threw THEN Settle(c, Rejected(v.error))
                     ELSE Settle(c, Resolved(v.value))
    /\ UNCHANGED <<apiVars, args, fetchArgs, fetchError, response, responseData, matchingErrors, idx, constructed, log>>

\* The steps of call c.
Step(c) ==
    \/ \E input \in Inputs : Call(c, input, FALSE, EmptyObject)
    \/ \E input \in Inputs, init \in FetcherRequestInits : Call(c, input, TRUE, init)
    \/ \E error \in TransportFailures : FetchReject(c, error)
    \/ \E r \in Responses(c) : FetchResolveNotOk(c, r)
    \/ \E r \in Responses(c) : FetchResolveOk(c, r)
    \/ ErrorJsonReject(c)
    \/ ErrorJsonResolve(c)
    \/ ErrorValidate(c)
    \/ ParseJsonReject(c)
    \/ ParseJsonResolve(c)
    \/ ParseValidate(c)

\* One caller, whose error classes are those of ErrorClasses.
Next == Step("c1")

Spec == Init /\ [][Next]_vars

\* ------------------------------------------------ callers of the whole API
\* A program that defines its error classes, constructs instances of them
\* itself and passes them to fetcher.

\* The arguments the callers give defineError.
DefineArgs ==
    {[statusCode |-> 400, schema |-> "isZero", name |-> ""],
     [statusCode |-> 400, schema |-> "any", name |-> "CustomError"],
     [statusCode |-> 404, schema |-> "any", name |-> ""],
     [statusCode |-> 404, schema |-> "isZero", name |-> "CustomError"]}

\* The response and the message a caller constructs an instance with.
CallerResponse ==
    [ref |-> "caller", status |-> 400, statusText |-> "",
     contentLength |-> "absent", decodable |-> FALSE, data |-> 0]
CallerMessages == {<<"Bad request">>}

\* instance instanceof ErrorClass, for a class returned by defineError
instanceofErrorClass(e, ErrorClass) == instanceofApiError(e) /\ e.class = ErrorClass

InitApi ==
    /\ InitCalls
    /\ registry = <<>>
    /\ instance = NoInstance
    /\ anonymousName \in AnonymousNames

\* A call of defineError: every call evaluates the class expression anew, so
\* the class it returns is a new object (id), whatever the arguments.
DefineError(a) ==
    /\ Len(registry) < MaxErrors
    /\ registry' = Append(registry,
                      [args |-> a,
                       class |-> Merge([id |-> Len(registry) + 1],
                                       defineError(a.statusCode, a.schema, a.name))])
    /\ UNCHANGED <<callVars, instance, anonymousName>>

\* The caller constructs an instance of the class at position i.
Construct(i, message, data) ==
    /\ i \in 1..Len(registry)
    /\ instance' = [of |-> i,
                    error |-> NewErrorClass(registry[i].class, message, data, CallerResponse)]
    /\ UNCHANGED <<callVars, registry, anonymousName>>

\* The errors list of the classes defined so far.
RegistryClasses == [i \in 1..Len(registry) |-> registry[i].class]

\* The responses these callers meet.
ApiResponses(c) ==
    {r \in Responses(c) : r.statusText = "Bad Request" /\ r.contentLength = "absent"}

\* The steps of a call that passes the classes defined so far.
StepApi(c) ==
    \/ \E input \in Inputs :
           Call(c, input, TRUE, [schema |-> "isZero", errors |-> RegistryClasses])
    \/ \E error \in TransportFailures : FetchReject(c, error)
    \/ \E r \in ApiResponses(c) : FetchResolveNotOk(c, r)
    \/ \E r \in ApiResponses(c) : FetchResolveOk(c, r)
    \/ ErrorJsonReject(c)
    \/ ErrorJsonResolve(c)
    \/ ErrorValidate(c)
    \/ ParseJsonReject(c)
    \/ ParseJsonResolve(c)
    \/ ParseValidate(c)

NextApi ==
    \/ \E a \in DefineArgs : DefineError(a)
    \/ \E i \in 1..MaxErrors, message \in CallerMessages, data \in Bodies :
           Construct(i, message, data)
    \/ StepApi("c1")

SpecApi == InitApi /\ [][NextApi]_vars

\* ------------------------------------------------------ concurrent calls
\* Two calls in flight at once, sharing the error classes and the schemas.
TwoErrorLists ==
    {<<defineError(400, "isZero", "CustomError"), defineError(400, "any", "CustomError")>>,
     <<defineError(400, "emptyIssues", "CustomError"), defineError(400, "throws", "CustomError")>>}
TwoInits == {[schema |-> x, errors |-> y] : x \in {"isZero", "any"}, y \in TwoErrorLists}
TwoResponses(c) ==
    {r \in Responses(c) : /\ r.status \in {200, 204, 400}
                          /\ r.statusText = "Bad Request"
                          /\ r.contentLength = "absent"}

\* The steps that follow an await: the continuation runs once the awaited
\* promise has settled.
Settling(c) ==
    \/ \E error \in TransportFailures : FetchReject(c, error)
    \/ \E r \in TwoResponses(c) : FetchResolveNotOk(c, r)
    \/ \E r \in TwoResponses(c) : FetchResolveOk(c, r)
    \/ ErrorJsonReject(c)
    \/ ErrorJsonResolve(c)
    \/ ErrorValidate(c)
    \/ ParseJsonReject(c)
    \/ ParseJsonResolve(c)
    \/ ParseValidate(c)

StepTwo(c) ==
    \/ \E input \in Inputs, init \in TwoInits : Call(c, input, TRUE, init)
    \/ Settling(c)

\* Any interleaving of the steps of the calls.
NextTwo == \E c \in Calls : StepTwo(c)

SpecTwo == Init /\ [][NextTwo]_vars

\* The transport, the body decode and the schema validations complete:
\* what a call awaits settles, and the event loop then runs the call's
\* continuation.
FairTwo == SpecTwo /\ \A c \in Calls : WF_vars(Settling(c))

\* ------------------------------------------------- one call, run alone
\* The code of one call as a function of the call's arguments and of what
\* the transport answered: nothing else is read, nothing is interleaved.

\* handleErrorResponse, lines 68-84: the loop from candidate i on; the value
\* is the error thrown.
RECURSIVE TryCandidates(_, _, _)
TryCandidates(matching, i, r) ==
    IF i > Len(matching) THEN NoMatchingErrorSchema(r)
    ELSE LET v == validateSchema(matching[i].schema, r.data) IN
         IF ~v.threw THEN NewErrorClass(matching[i], Str(<<r.statusText>>), v.value, r)
         ELSE IF ~instanceofSchemaValidationError(v.error) THEN v.error
              ELSE TryCandidates(matching, i + 1, r)

\* handleErrorResponse(response, errorTypes): the error it throws.
handleErrorResponse(r, errorTypes) ==
    IF Len(errorTypes) = 0 THEN RequestFailed(r)
    ELSE IF Len(FilterMatching(errorTypes, r)) = 0 THEN RequestFailed(r)
         ELSE IF ~r.decodable THEN RequestFailed(r)
              ELSE TryCandidates(FilterMatching(errorTypes, r), 1, r)

\* parseResponse(response, schema): how its promise settles.
parseResponse(r, schema) ==
    IF r.status = 204 \/ r.contentLength = "0" THEN Resolved(Null)
    ELSE IF ~r.decodable
         THEN Rejected(MkError("SyntaxError", "SyntaxError", <<"Unexpected token">>))
         ELSE IF schema = NoSchema THEN Resolved(r.data)
              ELSE LET v == validateSchema(schema, r.data) IN
                   IF v.threw THEN Rejected(v.error) ELSE Resolved(v.value)

\* fetcher(input, init), for a transport that rejects with error (NoError:
\* it resolves, with r): how the promise of the call settles.
fetcher(a, error, r) ==
    IF error # NoError THEN Rejected(Catch(error))
    ELSE IF ~ok(r) THEN Rejected(Catch(handleErrorResponse(r, errorsOf(a))))
         ELSE parseResponse(r, schemaOf(a))

\* ====================================================================
\* Vocabulary of the properties.  It speaks of the caller's arguments, of
\* the response and of what the schemas do, never of the code's own
\* helpers.
\* ====================================================================
Done(c) == pc[c] = "done"
HasResponse(c) == response[c] # NoResponse
Is2xx(r) == r.status \in 200..299
FailureResponse(c) == HasResponse(c) /\ ~Is2xx(response[c])

\* The errors list the caller passed (empty when it passed none).
CallerErrors(c) ==
    IF args[c].hasInit /\ "errors" \in DOMAIN args[c].init THEN args[c].init.errors ELSE <<>>

\* The success schema the caller passed.
CallerHasSchema(c) == args[c].hasInit /\ "schema" \in DOMAIN args[c].init

SchemaAccepts(schema, data) ==
    ~StandardValidate(schema, data).thrown /\ ~StandardValidate(schema, data).hasIssues
SchemaRejects(schema, data) ==
    ~StandardValidate(schema, data).thrown /\ StandardValidate(schema, data).hasIssues
SchemaThrows(schema, data) == StandardValidate(schema, data).thrown
SchemaOutput(schema, data) == StandardValidate(schema, data).value

\* Positions, in the caller's list, of the descriptors for the response's status.
StatusMatching(c) ==
    {i \in 1..Len(CallerErrors(c)) : CallerErrors(c)[i].statusCode = response[c].status}

\* ... and of those whose schema accepts the body.
AcceptingPositions(c) ==
    {i \in StatusMatching(c) : SchemaAccepts(CallerErrors(c)[i].schema, response[c].data)}

Min(S) == CHOOSE x \in S : \A y \in S : x =< y

\* How many status-matching descriptors stand at or before position i.
Rank(c, i) == Cardinality({j \in StatusMatching(c) : j =< i})

\* The status-matching descriptor number n, in the caller's order.
NthMatching(c, n) == CallerErrors(c)[CHOOSE i \in StatusMatching(c) : Rank(c, i) = n]

Validations(c) == SelectSeq(log[c], LAMBDA e : e.ev = "validate")
DescriptorValidations(c) == SelectSeq(log[c], LAMBDA e : e.ev = "validate" /\ e.k > 0)
SuccessValidations(c) == SelectSeq(log[c], LAMBDA e : e.ev = "validate" /\ e.k = 0)
BodyReads(c) == SelectSeq(log[c], LAMBDA e : e.ev = "json")

\* Exactly the first n status-matching descriptors had their schema
\* invoked, once each, in the caller's order.
TriedFirst(c, n) ==
    /\ Len(DescriptorValidations(c)) = n
    /\ \A j \in 1..n : /\ DescriptorValidations(c)[j].k = j
                       /\ DescriptorValidations(c)[j].schema = NthMatching(c, j).schema

Contains(message, token) == \E i \in DOMAIN message : message[i] = token

Rejects(c) == outcome[c].kind = "rejected"
RejectsTyped(c) == Rejects(c) /\ outcome[c].error.kind = "ApiError"
RejectsGeneric(c) == Rejects(c) /\ outcome[c].error.kind = "Error"

\* -------------------------------------------------------------------- C1
\* C1 as stated: a failure response whose body decodes and an errors list
\* with at least one status-matching descriptor whose schema accepts the
\* body make fetcher reject with an instance of the first such descriptor,
\* the very object constructed, and no later descriptor has its schema
\* invoked.
C1_AsStated ==
    \A c \in Calls :
        (Done(c) /\ FailureResponse(c) /\ response[c].decodable
                 /\ AcceptingPositions(c) # {})
        => LET first == Min(AcceptingPositions(c)) IN
           /\ RejectsTyped(c)
           /\ outcome[c].error.class = CallerErrors(c)[first]
           /\ constructed[c] = <<outcome[c].error>>
           /\ TriedFirst(c, Rank(c, first))

\* No status-matching descriptor before position i has a schema whose
\* validation throws.
NoThrowBefore(c, i) ==
    \A j \in StatusMatching(c) :
        j < i => ~SchemaThrows(CallerErrors(c)[j].schema, response[c].data)

\* C1 (amended): for a failure response whose body decodes, if some
\* status-matching descriptor's schema accepts the body and no
\* status-matching descriptor before the first such one has a schema whose
\* validation throws, fetcher rejects with an instance of that first
\* descriptor in the caller's order, the instance reaches the caller as the
\* very object constructed, and no descriptor after it has its schema invoked.
C1_FirstMatchWins ==
    \A c \in Calls :
        (Done(c) /\ FailureResponse(c) /\ response[c].decodable
                 /\ AcceptingPositions(c) # {}
                 /\ NoThrowBefore(c, Min(AcceptingPositions(c))))
        => LET first == Min(AcceptingPositions(c)) IN
           /\ RejectsTyped(c)
           /\ outcome[c].error.class = CallerErrors(c)[first]
           /\ constructed[c] = <<outcome[c].error>>
           /\ TriedFirst(c, Rank(c, first))

\* Two different status-matching descriptors accept and the first one won.
C1_Witness ==
    \E c \in Calls :
        /\ Done(c) /\ FailureResponse(c) /\ response[c].decodable
        /\ Cardinality(AcceptingPositions(c)) >= 2
        /\ \E i \in AcceptingPositions(c) :
               CallerErrors(c)[i] # CallerErrors(c)[Min(AcceptingPositions(c))]
        /\ RejectsTyped(c)
        /\ outcome[c].error.class = CallerErrors(c)[Min(AcceptingPositions(c))]

\* -------------------------------------------------------------------- C2
\* C2: on the failure path a schema rejection only advances to the next
\* status-matching descriptor: when the descriptors before the first
\* accepting one all reject, the typed error is an instance of the accepting
\* one and of none of the rejecting ones; and no failure response makes a
\* SchemaValidationError, or an error reporting a response validation
\* failure, reach the caller.
C2_RejectionOnlyAdvances ==
    \A c \in Calls :
        (Done(c) /\ FailureResponse(c))
        => /\ Rejects(c)
           /\ outcome[c].error.kind # "SchemaValidationError"
           /\ ~Contains(outcome[c].error.message, "Response validation failed: ")
           /\ (response[c].decodable /\ AcceptingPositions(c) # {}
                 /\ \A j \in StatusMatching(c) :
                        j < Min(AcceptingPositions(c))
                        => SchemaRejects(CallerErrors(c)[j].schema, response[c].data))
              => /\ RejectsTyped(c)
                 /\ outcome[c].error.class = CallerErrors(c)[Min(AcceptingPositions(c))]
                 /\ \A j \in StatusMatching(c) :
                        j < Min(AcceptingPositions(c))
                        => outcome[c].error.class # CallerErrors(c)[j]

\* Two descriptors for the status, the first rejects, the second accepts,
\* and the typed error is the second's.
C2_Witness ==
    \E c \in Calls :
        /\ Done(c) /\ FailureResponse(c) /\ response[c].decodable
        /\ Len(CallerErrors(c)) = 2 /\ StatusMatching(c) = {1, 2}
        /\ SchemaRejects(CallerErrors(c)[1].schema, response[c].data)
        /\ SchemaAccepts(CallerErrors(c)[2].schema, response[c].data)
        /\ RejectsTyped(c)
        /\ outcome[c].error.class = CallerErrors(c)[2]

\* -------------------------------------------------------------------- C3
\* C3: every typed error thrown by fetcher has data equal to the output of
\* the matching descriptor's schema for the decoded body and statusCode
\* equal to the descriptor's static statusCode and to the response status.
C3_TypedErrorData ==
    \A c \in Calls :
        (Done(c) /\ RejectsTyped(c))
        => LET e == outcome[c].error IN
           /\ \E i \in AcceptingPositions(c) : e.class = CallerErrors(c)[i]
           /\ e.data = SchemaOutput(e.class.schema, response[c].data)
           /\ e.statusCode = e.class.statusCode
           /\ e.statusCode = response[c].status

\* A typed error whose data is the coerced value, which differs from the body.
C3_Witness ==
    \E c \in Calls :
        /\ Done(c) /\ RejectsTyped(c)
        /\ outcome[c].error.data # response[c].data
        /\ outcome[c].error.data = SchemaOutput(outcome[c].error.class.schema, response[c].data)
        /\ outcome[c].error.statusCode = 400

\* -------------------------------------------------------------------- C4
\* C4: every typed error thrown by fetcher has the response's statusText as
\* its message and the original response object as its response field.
C4_TypedErrorMessage ==
    \A c \in Calls :
        (Done(c) /\ RejectsTyped(c))
        => /\ outcome[c].error.message = Str(<<response[c].statusText>>)
           /\ outcome[c].error.response = response[c]
           /\ outcome[c].error.response.ref = c

\* A typed error for a response with a status text.
C4_Witness ==
    \E c \in Calls :
        /\ Done(c) /\ RejectsTyped(c)
        /\ response[c].statusText = "Bad Request"
        /\ outcome[c].error.message = <<"Bad Request">>
        /\ outcome[c].error.response.ref = c

\* -------------------------------------------------------------------- C5
\* C5: for a response that is not ok, fetcher never resolves to a value:
\* the call ends in a rejection, the success parser is never entered and
\* the success schema is never invoked.
C5_FailureNeverResolves ==
    \A c \in Calls :
        FailureResponse(c)
        => /\ outcome[c].kind # "resolved"
           /\ pc[c] \notin {"parseJson", "parseValidate"}
           /\ Len(SuccessValidations(c)) = 0
           /\ Done(c) => Rejects(c)

\* A failure response for a call that passed a success schema and an
\* errors list, ended in a rejection.
C5_Witness ==
    \E c \in Calls :
        /\ Done(c) /\ FailureResponse(c) /\ Rejects(c)
        /\ CallerHasSchema(c) /\ Len(CallerErrors(c)) > 0
        /\ response[c].decodable

\* -------------------------------------------------------------------- C6
\* C6: for a failure response, when the errors list is absent or empty,
\* fetcher rejects with a generic failure whose message contains the numeric
\* status code, without reading the body and without invoking any schema.
C6_NoErrorsGeneric ==
    \A c \in Calls :
        (Done(c) /\ FailureResponse(c) /\ Len(CallerErrors(c)) = 0)
        => /\ RejectsGeneric(c)
           /\ Contains(outcome[c].error.message, ToString(response[c].status))
           /\ Len(BodyReads(c)) = 0
           /\ Len(Validations(c)) = 0

\* A failure response for a call that passed an empty errors list.
C6_Witness ==
    \E c \in Calls :
        /\ Done(c) /\ FailureResponse(c)
        /\ args[c].hasInit /\ "errors" \in DOMAIN args[c].init
        /\ Len(CallerErrors(c)) = 0
        /\ RejectsGeneric(c)
        /\ Contains(outcome[c].error.message, "404")

\* -------------------------------------------------------------------- C7
\* C7: when a failure response arrives and no custom error class is provided
\* for its status code, the generic Error has the message
\* "Request failed: <status> <statusText>" exactly.
C7_ExactMessage ==
    \A c \in Calls :
        (Done(c) /\ FailureResponse(c) /\ StatusMatching(c) = {})
        => /\ RejectsGeneric(c)
           /\ outcome[c].error.message =
                  Str(<<"Request failed: ", ToString(response[c].status), " ",
                        response[c].statusText>>)

\* -------------------------------------------------------------------- C8
\* C8: for a failure response and a non-empty errors list in which no
\* descriptor is for the response's status, fetcher rejects with the generic
\* failure, the body is never read and no descriptor schema is invoked.
C8_NoStatusMatchGeneric ==
    \A c \in Calls :
        (FailureResponse(c) /\ Len(CallerErrors(c)) > 0 /\ StatusMatching(c) = {})
        => /\ Done(c)
           /\ RejectsGeneric(c)
           /\ Len(BodyReads(c)) = 0
           /\ Len(Validations(c)) = 0
           /\ constructed[c] = <<>>

\* A failure response with a body that is not JSON, for a call whose
\* descriptors are all for other statuses.
C8_Witness ==
    \E c \in Calls :
        /\ Done(c) /\ FailureResponse(c)
        /\ Len(CallerErrors(c)) = 2 /\ StatusMatching(c) = {}
        /\ ~response[c].decodable
        /\ RejectsGeneric(c)

\* -------------------------------------------------------------------- C9
\* C9: for a failure response for which some descriptor matches the status
\* but whose body cannot be decoded as JSON, fetcher rejects with the generic
\* failure and no descriptor schema is invoked.
C9_UndecodableGeneric ==
    \A c \in Calls :
        (FailureResponse(c) /\ StatusMatching(c) # {} /\ ~response[c].decodable)
        => /\ Len(Validations(c)) = 0
           /\ constructed[c] = <<>>
           /\ pc[c] \in {"errorJson", "done"}
           /\ Done(c) => RejectsGeneric(c)

\* The body was read, could not be decoded, and the call rejected.
C9_Witness ==
    \E c \in Calls :
        /\ Done(c) /\ FailureResponse(c)
        /\ StatusMatching(c) # {} /\ ~response[c].decodable
        /\ Len(BodyReads(c)) = 1
        /\ RejectsGeneric(c)

\* -------------------------------------------------------------------- C10
\* C10: for a failure response whose body decodes and for which every
\* status-matching descriptor's schema rejects the body, fetcher rejects
\* with a generic failure whose message contains the status and states that
\* no error schema matched, after each status-matching descriptor has been
\* tried exactly once.
C10_AllRejectGeneric ==
    \A c \in Calls :
        (Done(c) /\ FailureResponse(c) /\ response[c].decodable
                 /\ StatusMatching(c) # {}
                 /\ \A i \in StatusMatching(c) :
                        SchemaRejects(CallerErrors(c)[i].schema, response[c].data))
        => /\ RejectsGeneric(c)
           /\ Contains(outcome[c].error.message, ToString(response[c].status))
           /\ Contains(outcome[c].error.message, " - No matching error schema")
           /\ TriedFirst(c, Cardinality(StatusMatching(c)))
           /\ constructed[c] = <<>>

\* Two status-matching descriptors, both rejecting, both tried.
C10_Witness ==
    \E c \in Calls :
        /\ Done(c) /\ FailureResponse(c) /\ response[c].decodable
        /\ Cardinality(StatusMatching(c)) = 2
        /\ \A i \in StatusMatching(c) :
               SchemaRejects(CallerErrors(c)[i].schema, response[c].data)
        /\ Len(DescriptorValidations(c)) = 2
        /\ RejectsGeneric(c)

\* -------------------------------------------------------------------- C11
\* Positions of the status-matching descriptors whose validation throws.
ThrowingPositions(c) ==
    {i \in StatusMatching(c) : SchemaThrows(CallerErrors(c)[i].schema, response[c].data)}

\* The candidate loop reaches a descriptor whose validation throws: no
\* status-matching descriptor before it accepts.
LoopReachesThrow(c) ==
    /\ FailureResponse(c) /\ response[c].decodable
    /\ ThrowingPositions(c) # {}
    /\ \A i \in AcceptingPositions(c) : Min(ThrowingPositions(c)) < i

\* C11: during failure-path matching, when validating a candidate throws an
\* error that is not a SchemaValidationError, the error is propagated at
\* once: no later candidate's schema is invoked, no typed error is thrown,
\* the message 'No matching error schema' is not produced, and the call
\* rejects with the thrown error's message.
C11_ThrowAbandonsCandidates ==
    \A c \in Calls :
        (Done(c) /\ LoopReachesThrow(c))
        => /\ Rejects(c)
           /\ ~RejectsTyped(c)
           /\ constructed[c] = <<>>
           /\ TriedFirst(c, Rank(c, Min(ThrowingPositions(c))))
           /\ ~Contains(outcome[c].error.message, " - No matching error schema")
           /\ Contains(outcome[c].error.message, "schema crashed")

\* The first candidate's validation throws, a later one would accept, and
\* only the first was tried.
C11_Witness ==
    \E c \in Calls :
        /\ Done(c) /\ LoopReachesThrow(c)
        /\ Min(ThrowingPositions(c)) = 1
        /\ AcceptingPositions(c) # {}
        /\ Len(DescriptorValidations(c)) = 1
        /\ RejectsGeneric(c)

\* -------------------------------------------------------------------- C12
\* A success response that declares no body.
NoContent(r) == Is2xx(r) /\ (r.status = 204 \/ r.contentLength = "0")

\* C12: for a 2xx response whose status is 204 or whose content-length is
\* zero, fetcher resolves to null whatever the schema: the body is not
\* decoded and the schema is not invoked.
C12_NoContentIsNull ==
    \A c \in Calls :
        (HasResponse(c) /\ NoContent(response[c]))
        => /\ Done(c)
           /\ outcome[c].kind = "resolved"
           /\ outcome[c].value = Null
           /\ Len(BodyReads(c)) = 0
           /\ Len(Validations(c)) = 0

\* A 200 response with content-length 0 for a call whose schema would
\* reject null.
C12_Witness ==
    \E c \in Calls :
        /\ Done(c) /\ HasResponse(c)
        /\ response[c].status = 200 /\ response[c].contentLength = "0"
        /\ CallerHasSchema(c)
        /\ SchemaRejects(args[c].init.schema, Null)
        /\ outcome[c].kind = "resolved" /\ outcome[c].value = Null

\* -------------------------------------------------------------------- C13
\* A success response with a body that decodes.
DecodedSuccess(c) ==
    HasResponse(c) /\ Is2xx(response[c]) /\ ~NoContent(response[c]) /\ response[c].decodable

\* C13: for a 2xx response with a body and a schema that accepts the decoded
\* body, fetcher resolves to the schema's output, not to the decoded value.
C13_ResolvesToSchemaOutput ==
    \A c \in Calls :
        (Done(c) /\ DecodedSuccess(c) /\ CallerHasSchema(c)
                 /\ SchemaAccepts(args[c].init.schema, response[c].data))
        => /\ outcome[c].kind = "resolved"
           /\ outcome[c].value = SchemaOutput(args[c].init.schema, response[c].data)
           /\ Len(SuccessValidations(c)) = 1

\* The resolved value is the coerced one and differs from the decoded body.
C13_Witness ==
    \E c \in Calls :
        /\ Done(c) /\ DecodedSuccess(c) /\ CallerHasSchema(c)
        /\ SchemaAccepts(args[c].init.schema, response[c].data)
        /\ outcome[c].kind = "resolved"
        /\ outcome[c].value # response[c].data
        /\ outcome[c].value = SchemaOutput(args[c].init.schema, response[c].data)

\* -------------------------------------------------------------------- C14
\* C14: for a 2xx response with a body when no schema is supplied, fetcher
\* resolves to the decoded value unchanged and validates nothing, whether or
\* not an errors list was supplied.
C14_NoSchemaPassthrough ==
    \A c \in Calls :
        (Done(c) /\ DecodedSuccess(c) /\ ~CallerHasSchema(c))
        => /\ outcome[c].kind = "resolved"
           /\ outcome[c].value = response[c].data
           /\ Len(Validations(c)) = 0
           /\ Len(BodyReads(c)) = 1

\* A call with an errors list and no schema resolved to the decoded body.
C14_Witness ==
    \E c \in Calls :
        /\ Done(c) /\ DecodedSuccess(c) /\ ~CallerHasSchema(c)
        /\ Len(CallerErrors(c)) > 0
        /\ response[c].data = 1
        /\ outcome[c].kind = "resolved" /\ outcome[c].value = 1

\* -------------------------------------------------------------------- C15
\* The schema rejects with a list of at least one issue, as the Standard
\* Schema contract has it.
SchemaReportsIssues(schema, data) ==
    SchemaRejects(schema, data) /\ Len(StandardValidate(schema, data).issues) > 0

C16_WrappedValidationFailure ==
    \A c \in Calls :
        (Done(c) /\ DecodedSuccess(c) /\ CallerHasSchema(c)
                 /\ SchemaRejects(args[c].init.schema, response[c].data))
        => /\ RejectsGeneric(c)
           /\ Len(outcome[c].error.message) > 0
           /\ outcome[c].error.message[1] = "Response validation failed: "

\* -------------------------------------------------------------------- C17
TransportFailed(c) == fetchError[c] # NoError

C18_AbortErrorName ==
    \A c \in Calls :
        (Done(c) /\ fetchError[c].kind = "AbortError")
        => /\ Rejects(c)
           /\ outcome[c].error.name = "AbortError"

\* -------------------------------------------------------------------- C19
\* C19: for a 2xx response with a body that cannot be decoded as JSON,
\* fetcher rejects with a generic error that is neither a typed API error
\* nor a SchemaValidationError, and the success schema is never invoked.
C19_UndecodableSuccess ==
    \A c \in Calls :
        (HasResponse(c) /\ Is2xx(response[c]) /\ ~NoContent(response[c])
                        /\ ~response[c].decodable)
        => /\ Len(Validations(c)) = 0
           /\ pc[c] \in {"parseJson", "done"}
           /\ Done(c) => /\ Rejects(c)
                         /\ outcome[c].error.kind \in {"Error", "SyntaxError", "TypeError"}

\* A call with a schema whose success response did not decode was rejected.
C19_Witness ==
    \E c \in Calls :
        /\ Done(c) /\ HasResponse(c) /\ Is2xx(response[c])
        /\ ~NoContent(response[c]) /\ ~response[c].decodable
        /\ CallerHasSchema(c)
        /\ Len(BodyReads(c)) = 1
        /\ Rejects(c)

\* -------------------------------------------------------------------- C20
\* The init object of the caller, empty when none was passed.
CallerInit(c) == IF args[c].hasInit THEN args[c].init ELSE [k \in {} |-> 0]

\* The one transport invocation of a started call has the caller's input and
\* every field of init but schema and errors, with its value.
TransportInvokedOnce(c) ==
    IF pc[c] = "idle" THEN fetchArgs[c] = <<>>
    ELSE /\ Len(fetchArgs[c]) = 1
         /\ fetchArgs[c][1].input = args[c].input
         /\ DOMAIN fetchArgs[c][1].requestInit = DOMAIN CallerInit(c) \ {"schema", "errors"}
         /\ \A k \in DOMAIN fetchArgs[c][1].requestInit :
                fetchArgs[c][1].requestInit[k] = CallerInit(c)[k]

\* C20: every fetcher call invokes the transport exactly once, with the
\* caller's input unchanged and an options object that holds every field of
\* init except schema and errors, each with its original value; with init
\* absent the options object is empty; the caller's init is not modified.
C20_TransportArguments ==
    /\ [](\A c \in Calls : TransportInvokedOnce(c))
    /\ [][\A c \in Calls : pc[c] # "idle" => /\ args'[c] = args[c]
                                              /\ fetchArgs'[c] = fetchArgs[c]]_vars

\* A call that passed schema, errors, method and signal: the transport got
\* method and signal only.
C20_Witness ==
    \E c \in Calls :
        /\ Done(c) /\ args[c].hasInit
        /\ DOMAIN args[c].init = {"schema", "errors", "method", "signal"}
        /\ Len(fetchArgs[c]) = 1
        /\ fetchArgs[c][1].requestInit = [method |-> "POST", signal |-> "controller.signal"]

\* ------------------------------------------------------------------- C21
\* C21: for every response with a 2xx status the errors list is never
\* consulted: the failure path is not entered, no candidate is selected,
\* no descriptor's schema is invoked, no typed error is constructed or
\* thrown, also when a descriptor's statusCode equals the status of the
\* response.
C21_SuccessIgnoresErrors ==
    \A c \in Calls :
        (HasResponse(c) /\ Is2xx(response[c]))
        => /\ pc[c] \notin {"errorJson", "errorValidate"}
           /\ matchingErrors[c] = <<>>
           /\ Len(DescriptorValidations(c)) = 0
           /\ constructed[c] = <<>>
           /\ ~RejectsTyped(c)

\* A 200 response whose body decodes, for a call whose errors list holds a
\* descriptor for the status 200 with a schema that accepts the body: the
\* call resolved.
C21_Witness ==
    \E c \in Calls :
        /\ Done(c) /\ HasResponse(c) /\ response[c].status = 200
        /\ response[c].decodable /\ response[c].contentLength = "absent"
        /\ AcceptingPositions(c) # {}
        /\ outcome[c].kind = "resolved"
        /\ outcome[c].value # Null

\* ------------------------------------------------------------------- C22
\* The class at position i of registry exposes, as statics, the statusCode
\* and the schema it was defined with.
StaticsAsDefined(i) ==
    /\ registry[i].class.statusCode = registry[i].args.statusCode
    /\ registry[i].class.schema = registry[i].args.schema

\* C22: the class returned by defineError exposes static statusCode and
\* static schema equal to the arguments, with no instance constructed; and
\* whatever fetcher calls and instance constructions follow, every class
\* defined so far stays as it was, also as an element of the errors list a
\* call was given: a descriptor carries no per-request state.
C22_StaticsStable ==
    /\ [](/\ \A i \in 1..Len(registry) : StaticsAsDefined(i)
          /\ \A c \in Calls : \A k \in 1..Len(CallerErrors(c)) :
                 CallerErrors(c)[k] = registry[k].class)
    /\ [][\A i \in 1..Len(registry) : registry'[i] = registry[i]]_vars

\* Two classes are defined, a call that was given them has rejected with an
\* instance of one, the caller has constructed an instance itself, and
\* the statics are as defined.
C22_Witness ==
    /\ Len(registry) = 2
    /\ registry[1].args.schema # registry[2].args.schema
    /\ \A i \in 1..2 : StaticsAsDefined(i)
    /\ instance.of # 0
    /\ \E c \in Calls : Done(c) /\ RejectsTyped(c) /\ Len(CallerErrors(c)) = 2

\* ------------------------------------------------------------------- C23
\* e is an instance of ApiError and of the class at position i of registry,
\* of no other class of registry, and its name is the display name that
\* class was defined with, or its constructor's name when none was given.
InstanceOfClassAt(e, i) ==
    /\ e.kind = "ApiError"
    /\ \A j \in 1..Len(registry) : (e.class = registry[j].class) <=> (j = i)
    /\ e.name = IF registry[i].args.name # "" THEN registry[i].args.name
                ELSE anonymousName

\* C23: every instance of a class returned by defineError, constructed by
\* the caller or by fetcher, is an instance of ApiError and of that class,
\* of no other class returned by defineError, and its name is the display
\* name given to defineError, or the name of its constructor when none was
\* given.
C23_InstanceIdentity ==
    /\ instance.of # 0 => InstanceOfClassAt(instance.error, instance.of)
    /\ \A c \in Calls : \A k \in 1..Len(constructed[c]) :
           \E i \in 1..Len(CallerErrors(c)) :
               /\ CallerErrors(c)[i] = registry[i].class
               /\ SchemaAccepts(registry[i].args.schema, response[c].data)
               /\ InstanceOfClassAt(constructed[c][k], i)

\* Two classes defined with the same arguments, a display name among
\* them: the caller's instance is of the second, fetcher's is of the first.
C23_Witness ==
    /\ Len(registry) = 2
    /\ registry[1].args = registry[2].args
    /\ registry[1].args.name = "CustomError"
    /\ instance.of = 2
    /\ instance.error.name = "CustomError"
    /\ \E c \in Calls : Done(c) /\ RejectsTyped(c) /\ outcome[c].error.class = registry[1].class

\* ------------------------------------------------------------------- C24
\* Two responses are structurally identical: status, statusText, headers
\* and body, whichever Response objects they are.
SameResponse(r1, r2) ==
    /\ r1.status = r2.status
    /\ r1.statusText = r2.statusText
    /\ r1.contentLength = r2.contentLength
    /\ r1.decodable = r2.decodable
    /\ r1.data = r2.data

\* Two outcomes are structurally identical: the same resolved value, or
\* errors of the same kind, class and name with the same data, statusCode,
\* message and issues.
SameOutcome(o1, o2) ==
    /\ o1.kind = o2.kind
    /\ o1.value = o2.value
    /\ o1.error.kind = o2.error.kind
    /\ o1.error.name = o2.error.name
    /\ o1.error.class = o2.error.class
    /\ o1.error.data = o2.error.data
    /\ o1.error.statusCode = o2.error.statusCode
    /\ o1.error.message = o2.error.message
    /\ o1.error.issues = o2.error.issues

\* C24: two calls of fetcher that were given the same schema and the same
\* errors list and met structurally identical responses have structurally
\* identical outcomes, whatever the order the calls were made and ran in.
C24_SameInputsSameOutcome ==
    \A c, d \in Calls :
        (/\ Done(c) /\ Done(d)
         /\ HasResponse(c) /\ HasResponse(d)
         /\ SameResponse(response[c], response[d])
         /\ CallerHasSchema(c) = CallerHasSchema(d)
         /\ (CallerHasSchema(c) => args[c].init.schema = args[d].init.schema)
         /\ CallerErrors(c) = CallerErrors(d))
        => SameOutcome(outcome[c], outcome[d])

\* Two calls met the same failure response, on two Response objects, and
\* both rejected with a typed error whose data is the schema's output.
C24_Witness ==
    /\ Done("c1") /\ Done("c2")
    /\ SameResponse(response["c1"], response["c2"])
    /\ response["c1"].ref # response["c2"].ref
    /\ args["c1"].init = args["c2"].init
    /\ RejectsTyped("c1") /\ RejectsTyped("c2")
    /\ outcome["c1"].error.data = 21
    /\ SameOutcome(outcome["c1"], outcome["c2"])

\* ------------------------------------------------------------------- C25
\* All that belongs to call c.
CallState(c) ==
    <<pc[c], args[c], fetchArgs[c], fetchError[c], response[c], responseData[c],
      matchingErrors[c], idx[c], outcome[c], constructed[c], log[c]>>

\* C25: in every interleaving of the steps of concurrent calls that share
\* error classes and schemas, the outcome of each call is the outcome of
\* that call run alone on its own arguments and its own response, and no
\* step of one call changes anything that belongs to another call.
C25_Isolation ==
    /\ [](\A c \in Calls :
              Done(c) => outcome[c] = fetcher(args[c], fetchError[c], response[c]))
    /\ [][\A c, d \in Calls :
              (c # d /\ CallState(c)' # CallState(c)) => CallState(d)' = CallState(d)]_vars

\* Both calls are in flight at once, past their transport, with different
\* bodies: one on the failure path, in the middle of its candidates, the
\* other on the success path, waiting for its validation.
C25_Witness ==
    /\ pc["c1"] = "errorValidate" /\ idx["c1"] = 2
    /\ pc["c2"] = "parseValidate"
    /\ response["c1"].data # response["c2"].data

\* ------------------------------------------------------------------- C26
\* The call has handed the decoded body of a success response to
\* validateSchema, with the caller's schema, and has settled with what
\* validateSchema returned or threw (parseResponse passes both on as they
\* are).
ValidatedSuccess(c) ==
    /\ Done(c) /\ HasResponse(c) /\ Is2xx(response[c])
    /\ response[c].status # 204 /\ response[c].contentLength # "0"
    /\ response[c].decodable
    /\ CallerHasSchema(c)

\* C26: validateSchema(schema, value) returns the output value of the
\* schema's result when the result has no issues; throws a
\* SchemaValidationError with exactly the issue list of the result when it
\* has one; and lets what the schema's validate throws through as it is,
\* not as a SchemaValidationError.
C26_ValidateSchema ==
    \A c \in Calls :
        ValidatedSuccess(c)
        => LET schema == args[c].init.schema
               result == StandardValidate(schema, response[c].data)
           IN /\ (~result.thrown /\ ~result.hasIssues)
                 => outcome[c] = Resolved(result.value)
              /\ (~result.thrown /\ result.hasIssues)
                 => /\ Rejects(c)
                    /\ outcome[c].error.kind = "SchemaValidationError"
                    /\ outcome[c].error.name = "SchemaValidationError"
                    /\ outcome[c].error.issues = result.issues
              /\ result.thrown
                 => /\ Rejects(c)
                    /\ outcome[c].error = SchemaThrownError
                    /\ outcome[c].error.kind # "SchemaValidationError"

\* A schema whose validate throws was given the body of a success
\* response, and the call rejected with what it threw.
C26_Witness ==
    \E c \in Calls :
        /\ ValidatedSuccess(c)
        /\ SchemaThrows(args[c].init.schema, response[c].data)
        /\ outcome[c].error.kind = "TypeError"
        /\ outcome[c].error.message = <<"schema crashed">>

\* ------------------------------------------------------------------- C27
\* C27: within one call the transport is invoked first and has answered
\* before anything else is invoked; on the failure path the body decode is
\* started only when some descriptor matches the status; a descriptor's
\* validation is started only after the one body decode has completed; the
\* validations are started in the caller's order of the status-matching
\* descriptors, each one only after the one before it has rejected the
\* body, so that at most one is under way.
C27_Ordering ==
    \A c \in Calls :
        LET dv == DescriptorValidations(c) IN
        /\ log[c] # <<>> => log[c][1].ev = "fetch"
        /\ \A i \in 2..Len(log[c]) : log[c][i].ev # "fetch" /\ HasResponse(c)
        /\ (pc[c] \notin {"idle", "fetch"} /\ ~TransportFailed(c)) => HasResponse(c)
        /\ \A i, j \in 1..Len(log[c]) :
               (i < j /\ log[c][i].ev = "validate") => log[c][j].ev = "validate"
        /\ (FailureResponse(c) /\ Len(BodyReads(c)) > 0) => StatusMatching(c) # {}
        /\ Len(dv) > 0
           => /\ Len(BodyReads(c)) = 1
              /\ response[c].decodable
              /\ responseData[c] = response[c].data
        /\ \A j \in 1..Len(dv) :
               /\ dv[j].k = j
               /\ j =< Cardinality(StatusMatching(c))
               /\ dv[j].schema = NthMatching(c, j).schema
               /\ j < Len(dv) => SchemaRejects(dv[j].schema, response[c].data)

\* A failure response and two descriptors for its status: the transport,
\* then the decode, then the first validation, which rejected the body,
\* then the second, which is under way.
C27_Witness ==
    \E c \in Calls :
        /\ pc[c] = "errorValidate"
        /\ Len(log[c]) = 4
        /\ log[c][2].ev = "json"
        /\ log[c][3].ev = "validate" /\ log[c][4].ev = "validate"
        /\ log[c][3].schema # log[c][4].schema
        /\ SchemaRejects(log[c][3].schema, response[c].data)

\* ------------------------------------------------------------------- C28
\* Some status-matching descriptor's schema accepts the body and no
\* status-matching descriptor before it has a schema whose validation
\* throws.
AcceptsBeforeAnyThrow(c) ==
    /\ AcceptingPositions(c) # {}
    /\ NoThrowBefore(c, Min(AcceptingPositions(c)))

\* C28: a call constructs at most one typed error; a finished call has
\* constructed exactly one if and only if the response is not 2xx, its
\* body decodes, and some status-matching descriptor's schema accepts the
\* body before any candidate's validation throws an error that is not a
\* validation error; a call with a 2xx response never constructs one.
C28_OneTypedError ==
    \A c \in Calls :
        /\ Len(constructed[c]) =< 1
        /\ (HasResponse(c) /\ Is2xx(response[c])) => constructed[c] = <<>>
        /\ ~HasResponse(c) => constructed[c] = <<>>
        /\ Done(c)
           => (Len(constructed[c]) = 1
               <=> (FailureResponse(c) /\ response[c].decodable /\ AcceptsBeforeAnyThrow(c)))

\* A finished call with two descriptors for the status whose schemas both
\* accept the body has constructed one typed error, the one it rejected
\* with.
C28_Witness ==
    \E c \in Calls :
        /\ Done(c) /\ FailureResponse(c) /\ response[c].decodable
        /\ Cardinality(AcceptingPositions(c)) = 2
        /\ Len(constructed[c]) = 1
        /\ constructed[c][1] = outcome[c].error

\* ------------------------------------------------------------------- C29
\* C29: response.json() is invoked at most once in a call: on the failure
\* path once the candidates are being tried it has been invoked exactly
\* once, however many of them are tried; it is never invoked when the
\* transport fails, when no descriptor matches the status of a failure
\* response, or when a success response has status 204 or a content-length
\* of zero; otherwise a finished call has invoked it once.
C29_BodyReadOnce ==
    \A c \in Calls :
        /\ Len(BodyReads(c)) =< 1
        /\ Len(DescriptorValidations(c)) > 0
           => /\ Len(BodyReads(c)) = 1
              /\ log[c][2].ev = "json"
        /\ (\/ TransportFailed(c)
            \/ ~HasResponse(c)
            \/ FailureResponse(c) /\ StatusMatching(c) = {}
            \/ HasResponse(c) /\ NoContent(response[c]))
           => Len(BodyReads(c)) = 0
        /\ (HasResponse(c) /\ ~NoContent(response[c])
               /\ (FailureResponse(c) => StatusMatching(c) # {}))
           => Len(BodyReads(c)) = 1

\* A failure response for which two candidates were tried: the body was
\* read once.
C29_Witness ==
    \E c \in Calls :
        /\ Done(c) /\ FailureResponse(c)
        /\ Len(DescriptorValidations(c)) = 2
        /\ Len(BodyReads(c)) = 1

\* ------------------------------------------------------------------- C30
\* What call c has invoked stays within what one pass needs: the transport
\* once, the body decode at most once, the success schema at most once and
\* only for a 2xx response, each status-matching descriptor's schema at
\* most once and only for a response that is not 2xx.
OnePass(c) ==
    /\ Len(SelectSeq(log[c], LAMBDA e : e.ev = "fetch")) =< 1
    /\ Len(BodyReads(c)) =< 1
    /\ Len(SuccessValidations(c)) =< 1
    /\ Len(DescriptorValidations(c)) =< Cardinality(StatusMatching(c))
    /\ \A i, j \in 1..Len(DescriptorValidations(c)) :
           i # j => DescriptorValidations(c)[i].k # DescriptorValidations(c)[j].k
    /\ Len(SuccessValidations(c)) > 0 => (HasResponse(c) /\ Is2xx(response[c]))
    /\ Len(DescriptorValidations(c)) > 0 => FailureResponse(c)

\* C30: when the transport, the body decode and the schema validations a
\* call waits for complete, the call ends: it settles, once and for all,
\* with one outcome, a resolution or a rejection; until then it is pending;
\* and it gets there in one pass, with at most one validation on the
\* success path and at most one per status-matching descriptor on the
\* failure path.
C30_Terminates ==
    /\ \A c \in Calls : (pc[c] # "idle") ~> Done(c)
    /\ [](\A c \in Calls :
              /\ OnePass(c)
              /\ Done(c) <=> outcome[c].kind \in {"resolved", "rejected"}
              /\ ~Done(c) => outcome[c] = Pending)
    /\ [][\A c \in Calls :
              Done(c) => /\ outcome'[c] = outcome[c]
                         /\ log'[c] = log[c]
                         /\ Done(c)']_vars

\* Both calls have ended, one after the two validations of its two
\* candidates, which both rejected, the other after the one validation of
\* the success path.
C30_Witness ==
    /\ Done("c1") /\ Done("c2")
    /\ FailureResponse("c1") /\ Len(DescriptorValidations("c1")) = 2
    /\ RejectsGeneric("c1")
    /\ Len(SuccessValidations("c2")) = 1
    /\ outcome["c2"].kind = "resolved"


====
